---- MODULE Spec2Model ----
(***************************************************************************)
(* Mobile navigation controller of js/main.js (the `navigation` object,    *)
(* lines 99-202) together with utils.debounce and utils.isMobile and the   *)
(* browser's cooperative timer queue.  Every handler runs to completion:   *)
(* one action is one dispatched event (all listeners it reaches) or one    *)
(* timer callback.  Time advances in steps of Quantum milliseconds.        *)
(***************************************************************************)
EXTENDS Integers, Sequences, FiniteSets, TLC

\* ------------------------------------------------------------ constants
\* CONFIG.breakpoints.mobile
breakpointsMobile == 768
\* wait argument of utils.debounce for the resize listener
ResizeWait == 150
\* delay of the deferred focus transfer in openMenu
FocusDelay == 100

\* ------------------------------------------------------------ bounds
\* largest number of .nav-link elements inside .main-nav
MaxLinks == 2
\* largest number of callbacks pending in the timer queue
MaxTimers == 2
\* milliseconds that pass in one Tick
Quantum == 50
\* largest number of img elements in the document
MaxImages == 2
\* largest number of entries in one intersection notification
MaxEntries == 2

\* viewport widths the window can take (both sides of the breakpoint)
Widths == {375, 767, 768}

\* ------------------------------------------------------------ elements
Toggle == [kind |-> "toggle", idx |-> 0]
NavArea == [kind |-> "nav", idx |-> 0]
Outside == [kind |-> "outside", idx |-> 0]
Body == [kind |-> "body", idx |-> 0]
Undefined == [kind |-> "undefined", idx |-> 0]
Link(i) == [kind |-> "link", idx |-> i]

Keys == {"ArrowDown", "ArrowRight", "ArrowUp", "ArrowLeft", "Escape", "Tab"}

VARIABLES
    togglePresent,  \* document has a .mobile-menu-toggle element
    navPresent,     \* document has a .main-nav element
    nLinks,         \* number of .nav-link elements inside .main-nav at setup
    detached,       \* indices of the nav links since removed from the document
    isOpen,         \* navigation.isOpen
    navActive,      \* nav.classList contains 'active'
    bodyMenuOpen,   \* document.body.classList contains 'menu-open'
    ariaExpanded,   \* toggle's aria-expanded attribute
    ariaHidden,     \* nav's aria-hidden attribute
    focus,          \* document.activeElement
    width,          \* window.innerWidth
    timers,         \* pending setTimeout callbacks, oldest first
    hasIO,          \* 'IntersectionObserver' in window
    lazyPhase,      \* "pending" until lazyLoad.init has run, then "ready"
    imgs,           \* the img elements: data-src, src, 'loaded' class
    observer,       \* lazyLoad.observer is set (not null)
    observed,       \* the images the observer observes
    dataSrc0,       \* history: the data-src each image had when the page loaded
    lastEntries,    \* history: the entries of the last intersection notification
    recording,      \* history: whether the timing and toggle histories are kept
    lastEvent,      \* history: the event or callback handled by the last step
    preOpen,        \* history: isOpen before the last step
    sinceResize,    \* history: ms since the last resize event (capped)
    burstLen,       \* history: resize events of the current burst (capped)
    burstEvals,     \* history: resize evaluations run in the current burst
    streak,         \* history: consecutive toggleMenu calls just made (capped)
    snap1,          \* history: the menu markers before the last toggleMenu
    snap2           \* history: the menu markers before the last two toggleMenu

progVars == <<isOpen, navActive, bodyMenuOpen, ariaExpanded, ariaHidden, focus, timers>>
domVars == <<togglePresent, navPresent, nLinks, detached>>
lazyVars == <<hasIO, lazyPhase, imgs, observer, observed, dataSrc0, lastEntries>>
histVars == <<recording, lastEvent, preOpen, sinceResize, burstLen, burstEvals, streak, snap1, snap2>>
vars == <<togglePresent, navPresent, nLinks, detached, isOpen, navActive, bodyMenuOpen,
          ariaExpanded, ariaHidden, focus, width, timers, hasIO, lazyPhase,
          imgs, observer, observed, dataSrc0, lastEntries, recording,
          lastEvent, preOpen, sinceResize, burstLen, burstEvals, streak, snap1, snap2>>

\* ------------------------------------------------------------ helpers
Min(a, b) == IF a < b THEN a ELSE b
Max(a, b) == IF a > b THEN a ELSE b

\* faulty variant: init goes on when only one of the elements is missing
bound_either == togglePresent \/ navPresent

\* navigation.init returned before bindEvents unless both elements exist
bound == togglePresent /\ navPresent

\* the state a handler reads and writes
Cur == [isOpen |-> isOpen, navActive |-> navActive, bodyMenuOpen |-> bodyMenuOpen,
        ariaExpanded |-> ariaExpanded, ariaHidden |-> ariaHidden,
        focus |-> focus, timers |-> timers]

Commit(s) ==
    /\ isOpen' = s.isOpen
    /\ navActive' = s.navActive
    /\ bodyMenuOpen' = s.bodyMenuOpen
    /\ ariaExpanded' = s.ariaExpanded
    /\ ariaHidden' = s.ariaHidden
    /\ focus' = s.focus
    /\ timers' = s.timers

\* isOpen and its four mirrors
Markers(s) == [isOpen |-> s.isOpen, navActive |-> s.navActive,
               bodyMenuOpen |-> s.bodyMenuOpen, ariaExpanded |-> s.ariaExpanded,
               ariaHidden |-> s.ariaHidden]
NoSnap == [isOpen |-> FALSE, navActive |-> FALSE, bodyMenuOpen |-> FALSE,
           ariaExpanded |-> "none", ariaHidden |-> "none"]

\* faulty variant: the breakpoint itself counted as mobile
isMobile_inclusive == width <= breakpointsMobile

\* utils.isMobile
isMobile == width < breakpointsMobile

\* links[k] of the NodeList of .nav-link elements (undefined out of range)
LinksAt(k) == IF k \in 0 .. (nLinks - 1) THEN Link(k) ELSE Undefined
\* JavaScript a || b on element references
OrElse(a, b) == IF a # Undefined THEN a ELSE b
\* the nav links still in the document
Attached == {i \in 0 .. (nLinks - 1) : i \notin detached}
InDocument(e) == e.kind = "link" => e.idx \in Attached
\* utils.$(navLinks, nav): the first .nav-link in the document or null
firstLink ==
    IF Attached = {} THEN Undefined
    ELSE Link(CHOOSE i \in Attached : \A j \in Attached : i <= j)

\* e.focus(): an element outside the document cannot take focus
Focus(s, e) == IF InDocument(e) THEN [s EXCEPT !.focus = e] ELSE s

\* setTimeout(cb, delay): a new entry at the end of the timer queue; el is
\* the element the callback's closure holds
SetTimeout(ts, kind, delay, handle, el) ==
    Append(ts, [kind |-> kind, rem |-> delay, handle |-> handle, el |-> el])
\* faulty variant: the pending callback is left in the queue
ClearTimeout_noop(ts) == ts
\* clearTimeout(timeout): drops the callback the debounce closure's `timeout`
\* variable refers to, if it is still pending
ClearTimeout(ts) == SelectSeq(ts, LAMBDA t : ~t.handle)
\* timeout = <new id>: the closure variable no longer refers to older timers
Unrefer(ts) == [k \in 1 .. Len(ts) |-> [ts[k] EXCEPT !.handle = FALSE]]
\* the queue without its k-th entry (the callback that is now running)
Without(ts, k) == [j \in 1 .. (Len(ts) - 1) |-> IF j < k THEN ts[j] ELSE ts[j + 1]]

\* ------------------------------------------------------------ navigation
\* faulty variant: the body keeps its 'menu-open' class
closeMenu_keepsBodyClass(s) ==
    [s EXCEPT !.isOpen = FALSE, !.navActive = FALSE,
              !.ariaExpanded = "false", !.ariaHidden = "true"]

closeMenu(s) ==
    [s EXCEPT !.isOpen = FALSE, !.navActive = FALSE, !.bodyMenuOpen = FALSE,
              !.ariaExpanded = "false", !.ariaHidden = "true"]

\* faulty variant: classList.toggle instead of classList.add
openMenu_togglesClass(s) ==
    LET t == [s EXCEPT !.isOpen = TRUE, !.navActive = ~s.navActive,
                       !.bodyMenuOpen = TRUE,
                       !.ariaExpanded = "true", !.ariaHidden = "false"]
    IN  IF firstLink # Undefined
        THEN [t EXCEPT !.timers =
                           SetTimeout(t.timers, "focus", FocusDelay, FALSE, firstLink)]
        ELSE t

openMenu(s) ==
    LET t == [s EXCEPT !.isOpen = TRUE, !.navActive = TRUE, !.bodyMenuOpen = TRUE,
                       !.ariaExpanded = "true", !.ariaHidden = "false"]
    IN  IF firstLink # Undefined
        THEN [t EXCEPT !.timers =
                           SetTimeout(t.timers, "focus", FocusDelay, FALSE, firstLink)]
        ELSE t

\* faulty variant: the branch on isOpen is lost
toggleMenu_alwaysOpens(s) == openMenu(s)

toggleMenu(s) == IF s.isOpen THEN closeMenu(s) ELSE openMenu(s)

\* bindEvents: click listener of the toggle (stops propagation)
toggleClickHandler(s) == toggleMenu(s)

\* faulty variant: a link click toggles the menu on mobile
linkClickHandler_toggles(s) == IF isMobile THEN toggleMenu(s) ELSE s

\* bindEvents: click listener of each nav link
linkClickHandler(s) == IF isMobile THEN closeMenu(s) ELSE s

toggleContains(t) == t.kind = "toggle"
\* faulty variant: e.target === nav instead of nav.contains(e.target)
navContains_selfOnly(t) == t.kind = "nav"
navContains(t) == t.kind \in {"nav", "link"}

\* faulty variant: the outside click closes on mobile only
docClickHandler_mobileOnly(s, t) ==
    IF isMobile /\ s.isOpen /\ ~toggleContains(t) /\ ~navContains(t)
    THEN closeMenu(s) ELSE s

\* bindEvents: click listener of the document
docClickHandler(s, t) ==
    IF s.isOpen /\ ~toggleContains(t) /\ ~navContains(t) THEN closeMenu(s) ELSE s

\* faulty variant: Escape closes without returning focus
docKeydownHandler_noFocus(s, key) ==
    IF key = "Escape" /\ s.isOpen THEN closeMenu(s) ELSE s

\* faulty variant: the test of e.key is lost, any key closes an open menu
docKeydownHandler_anyKey(s, key) ==
    IF s.isOpen THEN Focus(closeMenu(s), Toggle) ELSE s

\* faulty variant: the test of isOpen is lost, Escape always closes and focuses
docKeydownHandler_alwaysEscape(s, key) ==
    IF key = "Escape" THEN Focus(closeMenu(s), Toggle) ELSE s

\* bindEvents: keydown listener of the document
docKeydownHandler(s, key) ==
    IF key = "Escape" /\ s.isOpen THEN Focus(closeMenu(s), Toggle) ELSE s

\* faulty variant: no wrap-around at either end
linkKeydownHandler_noWrap(s, index, key) ==
    IF key = "ArrowDown" \/ key = "ArrowRight"
    THEN Focus(s, OrElse(LinksAt(index + 1), LinksAt(index)))
    ELSE IF key = "ArrowUp" \/ key = "ArrowLeft"
         THEN Focus(s, OrElse(LinksAt(index - 1), LinksAt(index)))
         ELSE s

\* setupAccessibility: keydown listener of the link at `index`
linkKeydownHandler(s, index, key) ==
    IF key = "ArrowDown" \/ key = "ArrowRight"
    THEN Focus(s, OrElse(LinksAt(index + 1), LinksAt(0)))
    ELSE IF key = "ArrowUp" \/ key = "ArrowLeft"
         THEN Focus(s, OrElse(LinksAt(index - 1), LinksAt(nLinks - 1)))
         ELSE s

\* faulty variant: the negation of isMobile() is lost
resizeEvaluation_mobileOnly(s) == IF isMobile /\ s.isOpen THEN closeMenu(s) ELSE s

\* bindEvents: the function handed to utils.debounce for window resize
resizeEvaluation(s) == IF ~isMobile /\ s.isOpen THEN closeMenu(s) ELSE s

\* faulty variant: the pending callback is not cleared
executedFunction_noClear(ts) ==
    SetTimeout(Unrefer(ts), "resize", ResizeWait, TRUE, Undefined)

\* utils.debounce: executedFunction
executedFunction(ts) ==
    SetTimeout(Unrefer(ClearTimeout(ts)), "resize", ResizeWait, TRUE, Undefined)

\* utils.debounce: later, run as the k-th entry of the queue
later(s, k) ==
    resizeEvaluation([s EXCEPT !.timers = ClearTimeout(Without(s.timers, k))])

\* the navigation object and the untouched DOM before navigation.init
Fresh == [isOpen |-> FALSE, navActive |-> FALSE, bodyMenuOpen |-> FALSE,
          ariaExpanded |-> "none", ariaHidden |-> "none",
          focus |-> Body, timers |-> <<>>]

\* faulty variant: the initial ARIA state is not written
setupAccessibility_noAria(s) == s

\* setupAccessibility: the initial ARIA state
setupAccessibility(s) == [s EXCEPT !.ariaExpanded = "false", !.ariaHidden = "true"]

\* navigation.init
navigationInit(s) == IF bound THEN setupAccessibility(s) ELSE s

\* ------------------------------------------------------------ lazyLoad
\* values of an img's data-src attribute: absent, empty, or a URL
NoAttr == "none"
DataSrcValues == {NoAttr, "", "a.jpg", "b.jpg"}
Placeholder == "placeholder.gif"

\* an img element as the page ships it; writes counts assignments to img.src
Img(d) == [dataSrc |-> d, src |-> Placeholder, loaded |-> FALSE, writes |-> 0]

\* the state lazyLoad reads and writes
LazyCur == [imgs |-> imgs, observer |-> observer, observed |-> observed]

\* document.querySelectorAll('img[data-src]')
WithDataSrc(s) == {i \in 1 .. Len(s.imgs) : s.imgs[i].dataSrc # NoAttr}

\* JavaScript truthiness of img.dataset.src (undefined and '' are falsy)
Truthy(d) == d # NoAttr /\ d # ""

\* faulty variant: the data-src attribute is not removed
loadImage_keepsMarker(s, i) ==
    LET img == s.imgs[i]
    IN  IF Truthy(img.dataSrc)
        THEN [s EXCEPT !.imgs[i] = [img EXCEPT !.src = img.dataSrc,
                                                 !.loaded = TRUE,
                                                 !.writes = Min(2, img.writes + 1)]]
        ELSE s

\* lazyLoad.loadImage
loadImage(s, i) ==
    LET img == s.imgs[i]
    IN  IF Truthy(img.dataSrc)
        THEN [s EXCEPT !.imgs[i] = [img EXCEPT !.src = img.dataSrc,
                                                 !.dataSrc = NoAttr,
                                                 !.loaded = TRUE,
                                                 !.writes = Min(2, img.writes + 1)]]
        ELSE s

\* forEach over a set of images, in document order
RECURSIVE LoadEach(_, _)
LoadEach(s, todo) ==
    IF todo = {} THEN s
    ELSE LET i == CHOOSE x \in todo : \A y \in todo : x <= y
         IN  LoadEach(loadImage(s, i), todo \ {i})

\* faulty variant: querySelector instead of querySelectorAll
loadAllImages_firstOnly(s) ==
    LET all == WithDataSrc(s)
    IN  IF all = {} THEN s
        ELSE loadImage(s, CHOOSE x \in all : \A y \in all : x <= y)

\* lazyLoad.loadAllImages
loadAllImages(s) == LoadEach(s, WithDataSrc(s))

\* observer.unobserve(target)
unobserve(s, i) == [s EXCEPT !.observed = s.observed \ {i}]

\* lazyLoad.handleIntersection
RECURSIVE handleIntersection(_, _)
handleIntersection(s, entries) ==
    IF entries = <<>> THEN s
    ELSE LET entry == Head(entries)
             t == IF entry.isIntersecting
                  THEN unobserve(loadImage(s, entry.target), entry.target)
                  ELSE s
         IN  handleIntersection(t, Tail(entries))

\* lazyLoad.init
lazyLoadInit(s) ==
    IF ~hasIO THEN loadAllImages(s)
    ELSE [s EXCEPT !.observer = TRUE, !.observed = WithDataSrc(s)]

\* ------------------------------------------------------------ history
ToggleEvents == {"clickToggle", "callToggle"}
TimeEvents == {"tick", "focusMove"}

\* the history variables after a step that handled `ev`; they are read by
\* no handler, and the timing and toggle histories are kept only if recording
Hist(ev) ==
    /\ lastEvent' = ev
    /\ preOpen' = isOpen
    /\ UNCHANGED recording
    /\ IF recording
       THEN /\ sinceResize' =
                 IF ev.type = "resize" THEN 0
                 ELSE IF ev.type = "tick" THEN Min(ResizeWait, sinceResize + Quantum)
                 ELSE sinceResize
            /\ burstLen' =
                 IF ev.type = "resize"
                 THEN (IF sinceResize >= ResizeWait THEN 1 ELSE Min(2, burstLen + 1))
                 ELSE burstLen
            /\ burstEvals' =
                 IF ev.type = "resize"
                 THEN (IF sinceResize >= ResizeWait THEN 0 ELSE burstEvals)
                 ELSE IF ev.type = "resizeTimer" THEN Min(2, burstEvals + 1)
                 ELSE burstEvals
            /\ IF ev.type \in ToggleEvents /\ bound
               THEN /\ streak' = Min(2, streak + 1)
                    /\ snap1' = Markers(Cur)
                    /\ snap2' = snap1
               ELSE IF ev.type \in TimeEvents
                    THEN UNCHANGED <<streak, snap1, snap2>>
                    ELSE /\ streak' = 0
                         /\ snap1' = NoSnap
                         /\ snap2' = NoSnap
       ELSE UNCHANGED <<sinceResize, burstLen, burstEvals, streak, snap1, snap2>>

Ev(type) == [type |-> type, key |-> "-"]
\* a focus callback ran: whether the element it holds was still in the document
FocusEv(e) == [type |-> "focusTimer",
               key |-> IF InDocument(e) THEN "attached" ELSE "detached"]
KeyEv(key) == [type |-> "keydown", key |-> key]

\* ------------------------------------------------------------ initial state
\* navigation.init and setupAccessibility have run on a freshly loaded page.
\* The classes 'active' and 'menu-open' are written by this script alone, so
\* the page starts with neither; without both elements init returns early
\* and the ARIA attributes are never written ("none").
Loaded ==
    /\ togglePresent \in BOOLEAN
    /\ navPresent \in BOOLEAN
    /\ nLinks \in (IF navPresent THEN 0 .. MaxLinks ELSE {0})
    /\ detached = {}
    /\ isOpen = navigationInit(Fresh).isOpen
    /\ navActive = navigationInit(Fresh).navActive
    /\ bodyMenuOpen = navigationInit(Fresh).bodyMenuOpen
    /\ ariaExpanded = navigationInit(Fresh).ariaExpanded
    /\ ariaHidden = navigationInit(Fresh).ariaHidden
    /\ focus = navigationInit(Fresh).focus
    /\ width \in Widths
    /\ timers = navigationInit(Fresh).timers
    /\ lastEvent = Ev("init")
    /\ preOpen = FALSE
    /\ sinceResize = ResizeWait
    /\ burstLen = 0
    /\ burstEvals = 0
    /\ streak = 0
    /\ snap1 = NoSnap
    /\ snap2 = NoSnap

\* a page without img elements, after lazyLoad.init
NoImages ==
    /\ hasIO = TRUE
    /\ lazyPhase = "ready"
    /\ imgs = <<>>
    /\ observer = TRUE
    /\ observed = {}
    /\ dataSrc0 = <<>>
    /\ lastEntries = <<>>

\* a page with up to MaxImages img elements, lazyLoad.init about to run
WithImages ==
    /\ hasIO \in BOOLEAN
    /\ lazyPhase = "pending"
    /\ \E n \in 0 .. MaxImages : dataSrc0 \in [1 .. n -> DataSrcValues]
    /\ imgs = [i \in DOMAIN dataSrc0 |-> Img(dataSrc0[i])]
    /\ observer = FALSE
    /\ observed = {}
    /\ lastEntries = <<>>

Init == Loaded /\ NoImages /\ recording = TRUE
\* the same page with the timing and toggle histories switched off
InitUnrecorded == Loaded /\ NoImages /\ recording = FALSE
\* a page with images and without the navigation elements
InitLazy ==
    /\ Loaded /\ ~togglePresent /\ ~navPresent /\ width = breakpointsMobile
    /\ WithImages
    /\ recording = FALSE

\* ------------------------------------------------------------ events
\* a handler's result is committed only if it fits the bounded timer queue
Run(s, ev) ==
    /\ Len(s.timers) <= MaxTimers
    /\ Commit(s)
    /\ Hist(ev)
    /\ UNCHANGED <<domVars, width, lazyVars>>

\* click on the toggle: its listener stops propagation
ClickToggle ==
    /\ togglePresent
    /\ Run(IF bound THEN toggleClickHandler(Cur) ELSE Cur, Ev("clickToggle"))

\* click on the i-th nav link: its listener, then the document's
ClickLink(i) ==
    /\ i \in Attached
    /\ Run(IF bound THEN docClickHandler(linkClickHandler(Cur), Link(i)) ELSE Cur,
           Ev("clickLink"))

\* click inside the nav but on no link: the document's listener
ClickNav ==
    /\ navPresent
    /\ Run(IF bound THEN docClickHandler(Cur, NavArea) ELSE Cur, Ev("clickNav"))

\* click outside both the toggle and the nav: the document's listener
ClickOutside ==
    /\ ~toggleContains(Outside) /\ ~navContains(Outside)
    /\ Run(IF bound THEN docClickHandler(Cur, Outside) ELSE Cur, Ev("clickOutside"))

\* keydown on the focused element: a link's listener, then the document's
Keydown(key) ==
    LET s1 == IF bound /\ focus.kind = "link"
              THEN linkKeydownHandler(Cur, focus.idx, key) ELSE Cur
    IN  /\ key \in Keys
        /\ Run(IF bound THEN docKeydownHandler(s1, key) ELSE Cur, KeyEv(key))

\* window resize to width w: the debounced listener re-arms its timer
Resize(w) ==
    LET ts == IF bound THEN executedFunction(timers) ELSE timers
    IN  /\ Len(ts) <= MaxTimers
        /\ width' = w
        /\ timers' = ts
        /\ Hist(Ev("resize"))
        /\ UNCHANGED <<domVars, isOpen, navActive, bodyMenuOpen, ariaExpanded,
                       ariaHidden, focus, lazyVars>>

\* window.LMF.navigation.openMenu() / closeMenu() / toggleMenu() called directly
CallOpen == bound /\ Run(openMenu(Cur), Ev("callOpen"))
CallClose == bound /\ Run(closeMenu(Cur), Ev("callClose"))
CallToggle == bound /\ Run(toggleMenu(Cur), Ev("callToggle"))

\* the user moves focus to another element (Tab, pointer)
Focusable ==
    {Body, Outside} \cup (IF togglePresent THEN {Toggle} ELSE {})
        \cup {Link(i) : i \in Attached}
FocusMove(e) ==
    /\ e \in Focusable
    /\ e # focus
    /\ focus' = e
    /\ Hist(Ev("focusMove"))
    /\ UNCHANGED <<domVars, width, isOpen, navActive, bodyMenuOpen, ariaExpanded,
                   ariaHidden, timers, lazyVars>>

\* ------------------------------------------------------------ timer queue
Due(k) == k \in 1 .. Len(timers) /\ timers[k].rem = 0

\* the deferred callback of openMenu: () => firstLink.focus()
FireFocus(k) ==
    /\ Due(k)
    /\ timers[k].kind = "focus"
    /\ Run(Focus([Cur EXCEPT !.timers = Without(timers, k)], timers[k].el),
           FocusEv(timers[k].el))

\* the debounced resize callback
FireResize(k) ==
    /\ Due(k)
    /\ timers[k].kind = "resize"
    /\ Run(later(Cur, k), Ev("resizeTimer"))

\* Quantum ms pass; a callback that is due runs before more time passes
Tick ==
    /\ \A k \in 1 .. Len(timers) : timers[k].rem > 0
    /\ timers' = [k \in 1 .. Len(timers) |->
                    [timers[k] EXCEPT !.rem = Max(0, timers[k].rem - Quantum)]]
    /\ Hist(Ev("tick"))
    /\ UNCHANGED <<domVars, width, isOpen, navActive, bodyMenuOpen, ariaExpanded,
                   ariaHidden, focus, lazyVars>>

Fire == \E k \in 1 .. MaxTimers + 1 : FireFocus(k) \/ FireResize(k)

Next ==
    \/ ClickToggle
    \/ \E i \in 0 .. MaxLinks : ClickLink(i)
    \/ ClickNav
    \/ ClickOutside
    \/ \E key \in Keys : Keydown(key)
    \/ \E w \in Widths : Resize(w)
    \/ CallOpen
    \/ CallClose
    \/ CallToggle
    \/ \E e \in Focusable : FocusMove(e)
    \/ Fire
    \/ Tick

Spec == Init /\ [][Next]_vars

\* another script (or a navigation) takes the i-th nav link out of the
\* document; an element that held focus loses it to the body
RemoveLink(i) ==
    /\ i \in Attached
    /\ detached' = detached \cup {i}
    /\ focus' = IF focus = Link(i) THEN Body ELSE focus
    /\ Hist(Ev("removeLink"))
    /\ UNCHANGED <<togglePresent, navPresent, nLinks, width, isOpen, navActive,
                   bodyMenuOpen, ariaExpanded, ariaHidden, timers, lazyVars>>

NextDom == Next \/ \E i \in 0 .. MaxLinks : RemoveLink(i)

\* the page's script on a document whose nav links may be removed
SpecDom == InitUnrecorded /\ [][NextDom]_vars

\* the event loop keeps running: time passes and due callbacks are called
FairSpec == InitUnrecorded /\ [][Next]_vars /\ WF_vars(Tick) /\ WF_vars(Fire)

\* ------------------------------------------------------------ lazy loading
navVars == <<domVars, isOpen, navActive, bodyMenuOpen, ariaExpanded, ariaHidden,
             focus, width, timers>>

LazyCommit(s) ==
    /\ imgs' = s.imgs
    /\ observer' = s.observer
    /\ observed' = s.observed

\* init() reaches lazyLoad.init
LazyInit ==
    /\ lazyPhase = "pending"
    /\ lazyPhase' = "ready"
    /\ LazyCommit(lazyLoadInit(LazyCur))
    /\ Hist(Ev("lazyInit"))
    /\ UNCHANGED <<navVars, hasIO, dataSrc0, lastEntries>>

\* the notifications the observer can deliver: up to MaxEntries entries, each
\* for an observed image (one image may occur more than once)
Entry == [target : observed, isIntersecting : BOOLEAN]
Notifications == UNION {[1 .. n -> Entry] : n \in 1 .. MaxEntries}

\* the observer calls back with `entries`
Intersection(entries) ==
    /\ lazyPhase = "ready"
    /\ observer
    /\ LazyCommit(handleIntersection(LazyCur, entries))
    /\ lastEntries' = entries
    /\ Hist(Ev("intersection"))
    /\ UNCHANGED <<navVars, hasIO, lazyPhase, dataSrc0>>

\* window.LMF.lazyLoad.loadImage(img) called directly
CallLoadImage(i) ==
    /\ lazyPhase = "ready"
    /\ i \in 1 .. Len(imgs)
    /\ LazyCommit(loadImage(LazyCur, i))
    /\ Hist(Ev("callLoadImage"))
    /\ UNCHANGED <<navVars, hasIO, lazyPhase, dataSrc0, lastEntries>>

NextLazy ==
    \/ LazyInit
    \/ \E entries \in Notifications : Intersection(entries)
    \/ \E i \in 1 .. MaxImages : CallLoadImage(i)

SpecLazy == InitLazy /\ [][NextLazy]_vars

\* ------------------------------------------------------------ properties
AllSet ==
    /\ isOpen /\ navActive /\ bodyMenuOpen
    /\ ariaExpanded = "true" /\ ariaHidden = "false"
AllClear ==
    /\ ~isOpen /\ ~navActive /\ ~bodyMenuOpen
    /\ ariaExpanded = "false" /\ ariaHidden = "true"

OpenCalls == {"clickToggle", "callOpen", "callToggle"}
QuietSteps == {"tick", "focusTimer", "resizeTimer"}
UserEvents == {"clickToggle", "clickLink", "clickNav", "clickOutside", "keydown",
               "callOpen", "callClose", "callToggle", "focusMove"}

\* C1: once set up with both elements, in every state an event handler or
\* timer callback can start from (so after every openMenu, closeMenu or
\* toggleMenu call) the four mirrors agree with isOpen: all set or all clear.
C1_MirrorsAgree == bound => (AllSet \/ AllClear)
C1_Witness == bound /\ lastEvent.type \in OpenCalls /\ ~preOpen /\ AllSet

\* C2: two toggleMenu calls in immediate succession, with no other handler
\* or timer callback between them, restore isOpen and the four mirrors.
C2_ToggleTwice == (bound /\ streak = 2) => Markers(Cur) = snap2
C2_Witness == bound /\ streak = 2 /\ snap2.isOpen /\ ~snap1.isOpen /\ AllSet

\* C3: a document click outside both the toggle and the nav while the menu
\* is open leaves it closed with all mirrors cleared, at any width.
C3_OutsideClickCloses ==
    (bound /\ preOpen /\ lastEvent.type = "clickOutside") => AllClear
C3_Witness ==
    bound /\ preOpen /\ lastEvent.type = "clickOutside" /\ ~isOpen /\ ~isMobile

\* C4 (as stated): while the menu is open, a click on any target inside the
\* nav, a nav link included, at any width, leaves isOpen true.
C4_InsideClickKeepsOpen_Original ==
    (bound /\ preOpen /\ lastEvent.type \in {"clickNav", "clickLink"}) => isOpen

\* C4 (amended): while the menu is open, a click inside the nav leaves isOpen
\* true unless the target is a nav link and the width is below the mobile
\* breakpoint: a click on the nav outside every link keeps it open at any
\* width, a click on a nav link keeps it open at widths of 768 and more.
C4_InsideClickKeepsOpen ==
    (/\ bound
     /\ preOpen
     /\ \/ lastEvent.type = "clickNav"
        \/ lastEvent.type = "clickLink" /\ width >= breakpointsMobile)
    => AllSet
C4_Witness ==
    bound /\ preOpen /\ lastEvent.type = "clickNav" /\ isOpen
        /\ width < breakpointsMobile

\* C5: a nav link click while the menu is open leaves it closed exactly when
\* the width at that moment is strictly below 768; at 768 and more it stays
\* open.
C5_LinkClick ==
    (bound /\ preOpen /\ lastEvent.type = "clickLink")
    => (~isOpen <=> width < breakpointsMobile)
C5_Witness ==
    bound /\ preOpen /\ lastEvent.type = "clickLink" /\ isOpen
        /\ width = breakpointsMobile

\* C6: Escape while the menu is open leaves it closed with focus on the
\* toggle, whereas the outside-click listener closes without moving focus.
C6_EscapeFocus ==
    /\ [](bound /\ preOpen /\ lastEvent = KeyEv("Escape")
            => AllClear /\ focus = Toggle)
    /\ [][lastEvent'.type = "clickOutside" => focus' = focus]_vars
C6_Witness ==
    bound /\ preOpen /\ lastEvent = KeyEv("Escape") /\ ~isOpen /\ focus = Toggle
        /\ nLinks > 0 /\ timers = <<>>

\* C7: in a burst of resize events, each less than ResizeWait after the one
\* before, the resize evaluation runs at most once, and only once ResizeWait
\* has passed since the last event of the burst.
C7_Debounce ==
    /\ burstEvals <= 1
    /\ lastEvent.type = "resizeTimer" => sinceResize >= ResizeWait
C7_Witness ==
    bound /\ lastEvent.type = "resizeTimer" /\ burstLen = 2 /\ burstEvals = 1

\* C8: no nav link click, document click, keydown, resize event or timer
\* callback changes isOpen from false to true; an event opens the menu only
\* through the toggle (or a direct call of openMenu/toggleMenu).
C8_OnlyToggleOpens == (~preOpen /\ isOpen) => lastEvent.type \in OpenCalls
C8_Witness == bound /\ ~preOpen /\ isOpen /\ lastEvent.type = "clickToggle"

\* C9: a resize event leaves a debounced callback pending; while one is
\* pending with the menu open and the width at 768 or more, and only time
\* passes and timer callbacks run, the menu is eventually closed unless a
\* further event (a user event or another resize) occurs; and a debounced
\* callback that fires below the breakpoint leaves isOpen as it was.
ResizePending == \E k \in 1 .. Len(timers) : timers[k].kind = "resize"
C9_ResizeCloses ==
    /\ [](bound /\ lastEvent.type = "resize" => ResizePending)
    /\ (/\ bound /\ isOpen /\ width >= breakpointsMobile /\ ResizePending
        /\ lastEvent.type \in QuietSteps)
         ~> (~isOpen \/ lastEvent.type \in UserEvents \cup {"resize"})
    /\ [][(lastEvent'.type = "resizeTimer" /\ width < breakpointsMobile)
            => isOpen' = isOpen]_vars
C9_Witness ==
    bound /\ preOpen /\ ~isOpen /\ lastEvent.type = "resizeTimer"
        /\ width >= breakpointsMobile

\* C10: with n >= 1 links, a next key on the link at index i moves focus to
\* the link at (i + 1) mod n and a previous key to the link at (i - 1) mod n.
NextKeys == {"ArrowDown", "ArrowRight"}
PrevKeys == {"ArrowUp", "ArrowLeft"}
C11_AbsentNoOp ==
    ~(togglePresent /\ navPresent)
    => /\ ~isOpen /\ ~navActive /\ ~bodyMenuOpen
       /\ ariaExpanded = "none" /\ ariaHidden = "none"
       /\ timers = <<>>
C11_Witness ==
    /\ togglePresent /\ ~navPresent
    /\ lastEvent.type = "clickToggle"
    /\ ~isOpen /\ ariaExpanded = "none" /\ timers = <<>>

\* C12: openMenu and closeMenu are idempotent on isOpen and the four
\* mirrors: from any reachable state a second call in succession yields the
\* markers of the first, and right after a direct call of either a repeated
\* call changes none of them.
C12_Idempotent ==
    bound
    => /\ Markers(openMenu(openMenu(Cur))) = Markers(openMenu(Cur))
       /\ Markers(closeMenu(closeMenu(Cur))) = Markers(closeMenu(Cur))
       /\ lastEvent.type = "callOpen" => Markers(openMenu(Cur)) = Markers(Cur)
       /\ lastEvent.type = "callClose" => Markers(closeMenu(Cur)) = Markers(Cur)
C12_Witness == bound /\ lastEvent.type = "callOpen" /\ preOpen /\ AllSet

\* C13: the deferred focus callback checks, when it runs, that the first nav
\* link still exists: no focus() call is made on a link that was removed from
\* the document after openMenu scheduled the callback.
C13_ChecksAtFiring == lastEvent.type = "focusTimer" => lastEvent.key = "attached"

\* C15: the deferred focus transfer does not race with the close triggers:
\* whenever a focus callback scheduled by openMenu fires and focuses the first
\* nav link, the menu is still open.
C15_FocusOnlyWhileOpen ==
    (bound /\ lastEvent.type = "focusTimer" /\ focus.kind = "link") => isOpen

\* C16: in every reachable state at most one debounced resize callback is
\* pending, and it is the one the latest resize event armed (the closure's
\* `timeout`): every earlier one was cancelled and can no longer run.
ResizeTimers == {k \in 1 .. Len(timers) : timers[k].kind = "resize"}
C16_OnePending ==
    /\ Cardinality(ResizeTimers) <= 1
    /\ \A k \in ResizeTimers : timers[k].handle
C16_Witness ==
    /\ bound /\ lastEvent.type = "resize" /\ burstLen = 2
    /\ Cardinality(ResizeTimers) = 1
    /\ \A k \in ResizeTimers : timers[k].rem = ResizeWait

\* C17: right after setup with both elements present, before any event, the
\* controller is closed: isOpen is false, aria-expanded is 'false' and
\* aria-hidden is 'true'.
C17_InitiallyClosed ==
    (togglePresent /\ navPresent /\ lastEvent.type = "init")
    => (~isOpen /\ ariaExpanded = "false" /\ ariaHidden = "true")
C17_Witness ==
    /\ togglePresent /\ navPresent /\ lastEvent.type = "init"
    /\ ~isOpen /\ ariaExpanded = "false" /\ ariaHidden = "true" /\ timers = <<>>

\* C18: an arrow keydown on a nav link, with the menu open or closed, leaves
\* isOpen and the four mirrors as they were once the link's and the
\* document's keydown listeners have run.
ArrowKeys == {"ArrowUp", "ArrowDown", "ArrowLeft", "ArrowRight"}
C18_ArrowsKeepMenu ==
    [][(/\ bound /\ focus.kind = "link"
        /\ lastEvent'.type = "keydown" /\ lastEvent'.key \in ArrowKeys)
       => Markers(Cur)' = Markers(Cur)]_vars
C18_Witness ==
    /\ bound /\ preOpen /\ AllSet /\ nLinks >= 2
    /\ lastEvent = KeyEv("ArrowUp") /\ focus = Link(nLinks - 1)

\* C19: while the menu is closed, an Escape keydown, a click outside both the
\* toggle and the nav, and a fired debounced resize callback each leave
\* isOpen, the four mirrors and the focused element as they were.
C19_ClosedNoOps ==
    [][(/\ bound /\ ~isOpen
        /\ \/ lastEvent' = KeyEv("Escape")
           \/ lastEvent'.type \in {"clickOutside", "resizeTimer"})
       => (Markers(Cur)' = Markers(Cur) /\ focus' = focus)]_vars
C19_Witness ==
    /\ bound /\ ~preOpen /\ AllClear
    /\ lastEvent = KeyEv("Escape") /\ focus = Link(0)

\* ---- lazy-loading helpers
Images == 1 .. Len(imgs)
\* img.src is the deferred value, data-src is gone, the 'loaded' class is set
LoadedFrom(i) ==
    /\ imgs[i].src = dataSrc0[i]
    /\ imgs[i].dataSrc = NoAttr
    /\ imgs[i].loaded
\* the img is as the page shipped it
Untouched(i) == imgs[i] = Img(dataSrc0[i])
\* the images of the last notification's intersecting entries
Intersected == {lastEntries[k].target : k \in {j \in DOMAIN lastEntries :
                                                 lastEntries[j].isIntersecting}}
Fallback == lazyPhase = "ready" /\ ~hasIO

\* C14 as stated: without IntersectionObserver, after lazyLoad.init every image
\* carrying a data-src attribute has src set to the deferred value, the
\* attribute removed and the 'loaded' class added, and no observer exists.
C14_FallbackLoadsAll_Original ==
    Fallback =>
        /\ \A i \in Images : dataSrc0[i] # NoAttr => LoadedFrom(i)
        /\ ~observer

\* C14 amended: without IntersectionObserver, after lazyLoad.init every image
\* whose data-src attribute is non-empty has src set to the deferred value, the
\* attribute removed and the 'loaded' class added; an image whose data-src is
\* empty or absent is left as it was; no observer exists and nothing is
\* observed.
C14_FallbackLoadsAll ==
    Fallback =>
        /\ \A i \in Images : IF Truthy(dataSrc0[i]) THEN LoadedFrom(i)
                                                     ELSE Untouched(i)
        /\ ~observer
        /\ observed = {}

C14_Witness ==
    /\ Fallback
    /\ lastEvent.type = "lazyInit"
    /\ Len(imgs) = MaxImages
    /\ \A i \in Images : Truthy(dataSrc0[i]) /\ LoadedFrom(i)
    /\ \E i, j \in Images : dataSrc0[i] # dataSrc0[j]

====
